---------------------------- MODULE Spec2Model ----------------------------
(***************************************************************************)
(* Triage simulation of burrows99/Patient-Management-System.               *)
(*                                                                         *)
(* The model covers TriageSimulator (simulation/triage_simulator.py), the  *)
(* two triage policies (simulation/triage/manchester.py and ollama.py) and *)
(* the SimPy kernel objects the simulator drives: the event heap of        *)
(* simpy.Environment and the sorted put queue / user list of               *)
(* simpy.PriorityResource.  Simulated time is in whole minutes.            *)
(***************************************************************************)
EXTENDS Integers, Sequences, FiniteSets, TLC

(***************************************************************************)
(* Bounds of the model.                                                    *)
(***************************************************************************)
\* longest encounter list handed to TriageSimulator.run_simulation
MaxPatients == 3
\* largest server count of a run
MaxServers == 2

(***************************************************************************)
(* Program constants.                                                      *)
(***************************************************************************)
\* "Cap service per patient at 480 min to build an upper bound"
ServiceCap == 480
\* "add 60 min slack"
Slack == 60
\* cap of the exponential back-off, time.sleep(min(2 ** attempt, 4))
BackoffCap == 4
\* ManchesterTriageSystem.DEFAULT_PRIORITY
DEFAULT_PRIORITY == 4

\* Python's None for numeric fields
None == 0

Max(a, b) == IF a >= b THEN a ELSE b
Min(a, b) == IF a <= b THEN a ELSE b

\* math.ceil(n / d) for positive d
CeilDiv(n, d) == (n + d - 1) \div d

RECURSIVE Pow2(_)
Pow2(k) == IF k = 0 THEN 1 ELSE 2 * Pow2(k - 1)

(***************************************************************************)
(* Python's module-level random generator.  The Mersenne twister is        *)
(* abstracted to a full-period congruential generator over eight states;   *)
(* what matters to the program is that every draw advances the one shared  *)
(* state and that the value drawn is a function of that state.             *)
(***************************************************************************)
RngStates == 0 .. 7
RandomNext(r) == (5 * r + 3) % 8

\* random.choice(seq): one draw, an index into seq
random_choice(seq, r) == [value |-> seq[(r % Len(seq)) + 1], rng |-> RandomNext(r)]

RECURSIVE SumSeq(_)
SumSeq(s) == IF s = << >> THEN 0 ELSE Head(s) + SumSeq(Tail(s))

RECURSIVE Bisect(_, _, _)
\* index of the first cumulative weight exceeding u (bisect over cum_weights)
Bisect(weights, u, i) ==
    IF i >= Len(weights) THEN Len(weights)
    ELSE IF u < SumSeq(SubSeq(weights, 1, i)) THEN i
    ELSE Bisect(weights, u, i + 1)

\* random.choices(population, weights=weights)[0]: one draw scaled to the total
random_choices(population, weights, r) ==
    LET total == SumSeq(weights)
        u     == (r * total) \div 8
    IN  [value |-> population[Bisect(weights, u, 1)], rng |-> RandomNext(r)]

(***************************************************************************)
(* config/mts_config.yaml: the five priority levels, the encounter-class   *)
(* map and the keyword rules read by ManchesterTriageSystem._load_config   *)
(* and TriageSystem._load_priority_map.                                    *)
(***************************************************************************)
Levels == 1 .. 5

\* priorities: max_wait_min and (integer) sampling weight of each level
PRIORITIES ==
    [p \in Levels |->
        CASE p = 1 -> [max_wait_min |-> 0,   weight |-> 2]
          [] p = 2 -> [max_wait_min |-> 10,  weight |-> 16]
          [] p = 3 -> [max_wait_min |-> 60,  weight |-> 44]
          [] p = 4 -> [max_wait_min |-> 120, weight |-> 34]
          [] p = 5 -> [max_wait_min |-> 240, weight |-> 4]]

\* encounter_priority_map: candidate levels of an encounter class
MappedClasses == {"emergency", "wellness", "ambulatory"}
ENCOUNTER_PRIORITY_MAP ==
    [c \in MappedClasses |->
        CASE c = "emergency"  -> <<1, 2, 3>>
          [] c = "wellness"   -> <<4, 5>>
          [] c = "ambulatory" -> <<3, 4, 5>>]

\* keyword_rules: for each configured level the reasons one of its terms
\* matches at the rule's threshold, and the levels it assigns
RuleLevels ==
    <<"immediate_priority", "very_urgent_priority", "urgent_priority",
      "standard_priority", "non_urgent_priority", "high", "medium", "low">>
ConfiguredRules == {"urgent_priority", "standard_priority", "low"}
KEYWORD_RULES ==
    [l \in ConfiguredRules |->
        CASE l = "urgent_priority"   -> [matches |-> {"fracture"}, assign |-> <<3>>]
          [] l = "standard_priority" -> [matches |-> {"sprain"}, assign |-> <<4, 5>>]
          [] l = "low"               -> [matches |-> {"sprain", "paperwork"}, assign |-> <<5>>]]

(***************************************************************************)
(* Reasons for the visit.  The free text is represented by the reason      *)
(* itself; the tables below say which term groups of manchester.py it      *)
(* matches (rapidfuzz partial_ratio at the group's threshold, or `in`).    *)
(***************************************************************************)
Reasons ==
    {"", "cardiac arrest", "chest pain", "abdominal pain", "worried parent",
     "fracture", "sprain", "paperwork", "follow up"}

\* fuzz.partial_ratio(term, text) >= 90 for a life_threat_terms entry
LifeThreatReasons == {"cardiac arrest"}
\* fuzz.partial_ratio(term, text) >= 85 for a very_urgent_terms entry
VeryUrgentReasons == {"chest pain"}

\* ManchesterTriageSystem._apply_discriminator_rules
apply_discriminator_rules(reason) ==
    IF reason = "" THEN None
    ELSE IF reason \in LifeThreatReasons THEN 1
    ELSE IF reason \in VeryUrgentReasons THEN 2
    ELSE None

\* ManchesterTriageSystem._apply_flowchart_logic
apply_flowchart_logic(reason, age) ==
    IF reason = "" THEN None
    ELSE IF age < 16
         THEN IF reason \in {"worried parent"} THEN 4
              ELSE None
         ELSE IF reason = "chest pain" THEN 3
              ELSE IF reason = "abdominal pain" THEN 3
              ELSE None

RECURSIVE KeywordScan(_, _, _)
\* the loop over the rule levels: the first level with a matching term returns
KeywordScan(reason, i, r) ==
    IF i > Len(RuleLevels) THEN [value |-> None, rng |-> r]
    ELSE LET level == RuleLevels[i] IN
         IF level \notin ConfiguredRules THEN KeywordScan(reason, i + 1, r)
         ELSE IF reason \in KEYWORD_RULES[level].matches
              THEN IF KEYWORD_RULES[level].assign # << >>
                   THEN random_choice(KEYWORD_RULES[level].assign, r)
                   ELSE [value |-> None, rng |-> r]
              ELSE KeywordScan(reason, i + 1, r)

\* ManchesterTriageSystem._apply_keyword_rules
apply_keyword_rules(reason, r) ==
    IF reason = "" THEN [value |-> None, rng |-> r]
    ELSE KeywordScan(reason, 1, r)

\* assign_priority without its last line: no default when nothing applies
mts_assign_priority_nodefault(enc, r) ==
    LET d  == apply_discriminator_rules(enc.reason_description)
        f  == apply_flowchart_logic(enc.reason_description, enc.age)
        k  == apply_keyword_rules(enc.reason_description, r)
    IN  IF d # None THEN [value |-> d, rng |-> r]
        ELSE IF f # None THEN [value |-> f, rng |-> r]
        ELSE IF k.value # None THEN k
        ELSE IF enc.encounter_class \in MappedClasses
             THEN LET ps == ENCOUNTER_PRIORITY_MAP[enc.encounter_class]
                      ws == [i \in 1 .. Len(ps) |-> PRIORITIES[ps[i]].weight]
                  IN  random_choices(ps, ws, k.rng)
             ELSE [value |-> None, rng |-> k.rng]

\* an assign_priority that consults the flowcharts before the discriminators
mts_assign_priority_flowchart_first(enc, r) ==
    LET d  == apply_discriminator_rules(enc.reason_description)
        f  == apply_flowchart_logic(enc.reason_description, enc.age)
        k  == apply_keyword_rules(enc.reason_description, r)
    IN  IF f # None THEN [value |-> f, rng |-> r]
        ELSE IF d # None THEN [value |-> d, rng |-> r]
        ELSE IF k.value # None THEN k
        ELSE IF enc.encounter_class \in MappedClasses
             THEN LET ps == ENCOUNTER_PRIORITY_MAP[enc.encounter_class]
                      ws == [i \in 1 .. Len(ps) |-> PRIORITIES[ps[i]].weight]
                  IN  random_choices(ps, ws, k.rng)
             ELSE [value |-> DEFAULT_PRIORITY, rng |-> k.rng]

\* ManchesterTriageSystem.assign_priority: the priority and the generator
\* state it leaves behind
mts_assign_priority(enc, r) ==
    LET d  == apply_discriminator_rules(enc.reason_description)
        f  == apply_flowchart_logic(enc.reason_description, enc.age)
        k  == apply_keyword_rules(enc.reason_description, r)
    IN  IF d # None THEN [value |-> d, rng |-> r]
        ELSE IF f # None THEN [value |-> f, rng |-> r]
        ELSE IF k.value # None THEN k
        ELSE IF enc.encounter_class \in MappedClasses
             THEN LET ps == ENCOUNTER_PRIORITY_MAP[enc.encounter_class]
                      ws == [i \in 1 .. Len(ps) |-> PRIORITIES[ps[i]].weight]
                  IN  random_choices(ps, ws, k.rng)
             ELSE [value |-> DEFAULT_PRIORITY, rng |-> k.rng]

\* complexity_map of ManchesterTriageSystem.estimate_service_min
complexity_map(p) ==
    CASE p = 1 -> 90
      [] p = 2 -> 60
      [] p = 3 -> 40
      [] p = 4 -> 20
      [] p = 5 -> 10
      [] OTHER -> 20

\* ManchesterTriageSystem.estimate_service_min
mts_estimate_service_min(enc, p) ==
    LET base_time == complexity_map(p) IN
    IF enc.age < 16 THEN (base_time * 12) \div 10
    ELSE IF enc.age > 65 THEN (base_time * 11) \div 10
    ELSE base_time


(***************************************************************************)
(* JSON values of a model response.  A value is its Python type and the     *)
(* characters of str(value); the coercions of ollama.py work on that text. *)
(***************************************************************************)
Digits == {"0", "1", "2", "3", "4", "5", "6", "7", "8", "9"}
Whitespace == {" "}

DigitVal(c) ==
    CASE c = "0" -> 0 [] c = "1" -> 1 [] c = "2" -> 2 [] c = "3" -> 3
      [] c = "4" -> 4 [] c = "5" -> 5 [] c = "6" -> 6 [] c = "7" -> 7
      [] c = "8" -> 8 [] c = "9" -> 9

\* F applied to the value of x, with x evaluated once
Bind(x, F(_)) == CHOOSE r \in {F(v) : v \in {x}} : TRUE

RECURSIVE LStrip(_, _)
LStrip(s, cs) == IF s # << >> /\ Head(s) \in cs THEN LStrip(Tail(s), cs) ELSE s

RECURSIVE RStrip(_, _)
RStrip(s, cs) ==
    IF s # << >> /\ s[Len(s)] \in cs THEN RStrip(SubSeq(s, 1, Len(s) - 1), cs) ELSE s

\* str.strip(chars)
Strip(s, cs) == Bind(s, LAMBDA v : Bind(LStrip(v, cs), LAMBDA l : RStrip(l, cs)))

\* str(v).strip().strip('"').strip("'")
StripQuotes(s) == Strip(Strip(Strip(s, Whitespace), {"\""}), {"'"})

RECURSIVE DigitsValue(_)
DigitsValue(s) ==
    IF s = << >> THEN 0 ELSE 10 * DigitsValue(SubSeq(s, 1, Len(s) - 1)) + DigitVal(s[Len(s)])

AllDigits(s) == s # << >> /\ \A i \in 1 .. Len(s) : s[i] \in Digits

\* int(text): optional surrounding blanks, optional sign, decimal digits
PyInt(text) ==
    Bind(Strip(text, Whitespace),
         LAMBDA t :
            LET neg  == t # << >> /\ Head(t) = "-"
                body == IF t # << >> /\ Head(t) \in {"-", "+"} THEN Tail(t) ELSE t
            IN  IF AllDigits(body)
                THEN [ok |-> TRUE,
                      value |-> IF neg THEN 0 - DigitsValue(body) ELSE DigitsValue(body)]
                ELSE [ok |-> FALSE, value |-> 0])

\* position of the decimal point, 0 when there is none
DotAt(s) == IF \E i \in 1 .. Len(s) : s[i] = "."
            THEN CHOOSE i \in 1 .. Len(s) : s[i] = "." /\ \A j \in 1 .. (i - 1) : s[j] # "."
            ELSE 0

\* float(text) for decimal literals: the whole minutes and whether the number
\* is positive (the responses of the model carry no fractional minutes)
PyFloat(text) ==
    Bind(Strip(text, Whitespace),
         LAMBDA t :
            LET neg   == t # << >> /\ Head(t) = "-"
                body  == IF t # << >> /\ Head(t) \in {"-", "+"} THEN Tail(t) ELSE t
                d     == DotAt(body)
                whole == IF d = 0 THEN body ELSE SubSeq(body, 1, d - 1)
                frac  == IF d = 0 THEN << >> ELSE SubSeq(body, d + 1, Len(body))
                wellFormed == /\ body # << >>
                              /\ \A i \in 1 .. Len(whole) : whole[i] \in Digits
                              /\ \A i \in 1 .. Len(frac) : frac[i] \in Digits
                              /\ Len(whole) + Len(frac) > 0
                nonzero == \/ DigitsValue(whole) > 0
                           \/ \E i \in 1 .. Len(frac) : frac[i] # "0"
            IN  IF wellFormed
                THEN [ok |-> TRUE, value |-> DigitsValue(whole), positive |-> ~neg /\ nonzero]
                ELSE [ok |-> FALSE, value |-> 0, positive |-> FALSE])

IntV(cs)   == [ty |-> "int", repr |-> cs]
StrV(cs)   == [ty |-> "str", repr |-> cs]
FloatV(cs) == [ty |-> "float", repr |-> cs]
BoolTrue   == [ty |-> "bool", repr |-> <<"T", "r", "u", "e">>]
Null       == [ty |-> "null", repr |-> << >>]
Missing    == [ty |-> "missing", repr |-> << >>]

\* the keys "service_min", "service_time_min", "service_minutes", all absent
NoService == <<Missing, Missing, Missing>>

\* OllamaTriageAgent._extract_priority_value
extract_priority_value(response) ==
    LET val == IF response.is_dict THEN response.priority ELSE Null IN
    IF val.ty \in {"int", "float", "str", "bool"}
    THEN Bind(PyInt(StripQuotes(val.repr)),
              LAMBDA num :
                 IF num.ok /\ 1 <= num.value /\ num.value <= 5 THEN num.value ELSE None)
    ELSE None

RECURSIVE ServiceScan(_, _)
\* the loop over the three accepted keys
ServiceScan(vals, i) ==
    IF i > Len(vals) THEN None
    ELSE IF vals[i].ty = "missing" THEN ServiceScan(vals, i + 1)
    ELSE Bind(PyFloat(StripQuotes(vals[i].repr)),
              LAMBDA num :
                 IF num.ok /\ vals[i].ty # "null" /\ num.positive THEN num.value
                 ELSE ServiceScan(vals, i + 1))

\* OllamaTriageAgent._extract_service_min_value
extract_service_min_value(response) ==
    IF ~response.is_dict THEN None ELSE ServiceScan(response.service, 1)

\* re.search(r"[1-5]", text): the first character in 1..5, or no match
FirstLevelDigit(s) ==
    IF \E i \in 1 .. Len(s) : s[i] \in {"1", "2", "3", "4", "5"}
    THEN LET i == CHOOSE k \in 1 .. Len(s) :
                      /\ s[k] \in {"1", "2", "3", "4", "5"}
                      /\ \A j \in 1 .. (k - 1) : s[j] \notin {"1", "2", "3", "4", "5"}
         IN  <<s[i]>>
    ELSE << >>

\* OllamaTriageAgent._normalize_dict
normalize_dict(obj) ==
    IF obj.priority.ty = "str" /\ FirstLevelDigit(obj.priority.repr) # << >>
    THEN [obj EXCEPT !.priority = IntV(FirstLevelDigit(obj.priority.repr))]
    ELSE obj


(***************************************************************************)
(* Remote endpoint.  One HTTP attempt of _http_generate ends in a failure  *)
(* (an exception inside the retry loop) or in a result that _call_ollama   *)
(* returns; an endpoint is the set of outcomes it can produce.             *)
(***************************************************************************)
\* requests.ConnectionError, requests.Timeout, raise_for_status() on a 5xx,
\* and a text neither json.loads nor the {...} substring parse accepts
FailureKinds == {"network_error", "timeout", "http_500", "malformed_json"}

Failure(kind) == [kind |-> kind, priority |-> Missing, service |-> NoService]
\* {"response": "<json object>"}: parsed by _parse_with_strategies
TextReply(prio, svc) == [kind |-> "text", priority |-> prio, service |-> svc]
\* a JSON object without a "response" key: returned as it is
PreParsed(prio, svc) == [kind |-> "preparsed", priority |-> prio, service |-> svc]
\* {"response": "[1]"}: valid JSON that is no object
NonDict == [kind |-> "non_dict", priority |-> Missing, service |-> NoService]

Svc(v) == <<v, Missing, Missing>>

Endpoints == {"down", "http_500", "garbage", "sloppy", "clinic"}

Repertoire(e) ==
    CASE e = "down"     -> {Failure("network_error"), Failure("timeout")}
      [] e = "http_500" -> {Failure("http_500")}
      [] e = "garbage"  -> {Failure("malformed_json"), NonDict}
      [] e = "sloppy"   ->
            {TextReply(IntV(<<"3">>), NoService),
             TextReply(StrV(<<"2">>), Svc(StrV(<<"1", "5">>))),
             TextReply(StrV(<<"1", "0">>), NoService),
             TextReply(StrV(<<"0", ".", "5">>), NoService),
             TextReply(IntV(<<"0">>), NoService),
             TextReply(IntV(<<"6">>), Svc(IntV(<<"1", "0">>))),
             TextReply(FloatV(<<"3", ".", "0">>), NoService),
             TextReply(Null, NoService),
             TextReply(Missing, Svc(IntV(<<"1", "0">>))),
             TextReply(BoolTrue, NoService),
             PreParsed(IntV(<<"5">>), <<StrV(<<"a", "b", "c">>), IntV(<<"0">>), FloatV(<<"2", "0", ".", "0">>)>>),
             PreParsed(StrV(<<"1", "0">>), NoService),
             PreParsed(StrV(<<" ", "4", " ">>), NoService),
             Failure("timeout"),
             Failure("malformed_json")}
      [] e = "clinic"   ->
            {TextReply(IntV(<<"1">>), Svc(IntV(<<"1", "0">>))),
             TextReply(IntV(<<"4">>), Svc(IntV(<<"1", "0">>))),
             TextReply(IntV(<<"4">>), Svc(IntV(<<"6", "0", "0">>))),
             TextReply(IntV(<<"1">>), NoService),
             TextReply(IntV(<<"6">>), NoService),
             Failure("http_500")}

\* what _call_ollama returns for a result it accepts
ResponseOf(o) ==
    IF o.kind = "text"
    THEN normalize_dict([is_dict |-> TRUE, priority |-> o.priority, service |-> o.service])
    ELSE IF o.kind = "preparsed"
    THEN [is_dict |-> TRUE, priority |-> o.priority, service |-> o.service]
    ELSE [is_dict |-> FALSE, priority |-> Missing, service |-> NoService]

NoResponse == [is_dict |-> FALSE, priority |-> Missing, service |-> NoService]

(***************************************************************************)
(* Encounters.                                                             *)
(***************************************************************************)
\* shape tells what is wrong with the record: "no_arrival" and "no_service"
\* lack the key, "text_arrival" and "text_service" hold a string that is no
\* number, "null_service" holds None; the numeric field of a malformed key
\* is a placeholder that is never read
Profile(cls, reason, age, pre) ==
    [encounter_class |-> cls, reason_description |-> reason, age |-> age,
     service_min |-> 15, priority |-> pre, shape |-> "ok"]

MalformedShapes ==
    {"no_arrival", "text_arrival", "no_service", "text_service", "null_service"}

\* one encounter per branch of the rule-based policy
PolicyProfiles ==
    {Profile("emergency", "cardiac arrest", 40, 5),
     Profile("ambulatory", "chest pain", 70, None),
     Profile("emergency", "abdominal pain", 40, None),
     Profile("wellness", "worried parent", 10, None),
     Profile("ambulatory", "fracture", 10, None),
     Profile("wellness", "sprain", 10, 1),
     Profile("urgentcare", "paperwork", 40, None),
     Profile("wellness", "", 40, None),
     Profile("emergency", "follow up", 70, None),
     Profile("urgentcare", "follow up", 40, None)}

\* the encounters of a full run under the rule-based policy
RunProfiles ==
    {Profile("emergency", "cardiac arrest", 40, 5),
     Profile("wellness", "sprain", 10, 1),
     Profile("urgentcare", "follow up", 40, None)}

\* the encounters of a full run under the agent
AgentRunProfiles == {Profile("wellness", "sprain", 10, 1)}

ArrivalTimes == {0, 10}

WithArrival(profile, a) ==
    [encounter_class |-> profile.encounter_class,
     reason_description |-> profile.reason_description,
     age |-> profile.age, service_min |-> profile.service_min,
     priority |-> profile.priority, shape |-> profile.shape, arrival_min |-> a]

\* encounter lists of at most maxn encounters, sorted by arrival time as the
\* loader delivers them; the list may be empty
EncounterLists(profiles, maxn) ==
    UNION { { [i \in 1 .. n |-> WithArrival(f[i][1], f[i][2])] :
                f \in { g \in [1 .. n -> profiles \X ArrivalTimes] :
                          \A i \in 1 .. (n - 1) : g[i][2] <= g[i + 1][2] } } :
            n \in 0 .. maxn }

\* single-encounter lists with a malformed record: each shape, and a negative
\* arrival time
MalformedLists ==
    { <<[WithArrival(Profile("wellness", "sprain", 40, None), 0) EXCEPT !.shape = sh]>> :
        sh \in MalformedShapes }
    \cup { <<WithArrival(Profile("wellness", "sprain", 40, None), 0 - 5)>> }

(***************************************************************************)
(* simulation/common/analytics.py: the report built from the event list.   *)
(* Percentages and minutes rounded to one decimal are kept in tenths.      *)
(***************************************************************************)
\* round(num / den, 1) in tenths, ties to the even tenth; num >= 0, den > 0
Round1(num, den) ==
    LET q == (10 * num) \div den
        r == (10 * num) % den
    IN  IF 2 * r < den THEN q
        ELSE IF 2 * r > den THEN q + 1
        ELSE IF q % 2 = 0 THEN q ELSE q + 1

\* the events of one priority group, in the order of the event list
RECURSIVE GroupOf(_, _)
GroupOf(evs, p) ==
    IF evs = << >> THEN << >>
    ELSE IF Head(evs).priority = p THEN <<Head(evs)>> \o GroupOf(Tail(evs), p)
    ELSE GroupOf(Tail(evs), p)

\* a breach test that counts a wait equal to the target
breached_at_target(e) == e.wait_min >= e.max_wait_min

\* df['wait_min'] > df['max_wait_min']
breached(e) == e.wait_min > e.max_wait_min

\* the sum of the breached column
RECURSIVE CountBreached(_)
CountBreached(evs) ==
    IF evs = << >> THEN 0
    ELSE (IF breached(Head(evs)) THEN 1 ELSE 0) + CountBreached(Tail(evs))

RECURSIVE SumWait(_)
SumWait(evs) == IF evs = << >> THEN 0 ELSE Head(evs).wait_min + SumWait(Tail(evs))

RECURSIVE MaxTarget(_)
MaxTarget(evs) ==
    IF Len(evs) = 1 THEN Head(evs).max_wait_min
    ELSE Max(Head(evs).max_wait_min, MaxTarget(Tail(evs)))

RECURSIVE InsertSorted(_, _)
InsertSorted(sorted, x) ==
    IF sorted = << >> THEN <<x>>
    ELSE IF x <= Head(sorted) THEN <<x>> \o sorted
    ELSE <<Head(sorted)>> \o InsertSorted(Tail(sorted), x)

RECURSIVE SortedWaits(_)
SortedWaits(evs) ==
    IF evs = << >> THEN << >>
    ELSE InsertSorted(SortedWaits(Tail(evs)), Head(evs).wait_min)

\* Series.quantile(0.95), linear interpolation, rounded to one decimal
Quantile95(evs) ==
    LET w    == SortedWaits(evs)
        h    == 19 * (Len(w) - 1)
        lo   == (h \div 20) + 1
        frac == h % 20
        hi   == IF frac = 0 THEN lo ELSE lo + 1
    IN  Round1(20 * w[lo] + frac * (w[hi] - w[lo]), 20)

\* one row of the per-priority table
PriorityRow(p, evs) ==
    [target_max_wait_min |-> IF p \in DOMAIN PRIORITIES THEN PRIORITIES[p].max_wait_min
                             ELSE MaxTarget(evs),
     patients |-> Len(evs),
     avg_wait_min |-> Round1(SumWait(evs), Len(evs)),
     p95_wait_min |-> Quantile95(evs),
     breach_rate_percent |-> Round1(CountBreached(evs) * 100, Len(evs)),
     breaches |-> CountBreached(evs)]

\* a breakdown with a row for each of the five levels, empty groups included
aggregate_priority_breakdown_all_levels(evs) ==
    [p \in Levels |->
        IF GroupOf(evs, p) = << >>
        THEN [target_max_wait_min |-> PRIORITIES[p].max_wait_min, patients |-> 0,
              avg_wait_min |-> 0, p95_wait_min |-> 0, breach_rate_percent |-> 0,
              breaches |-> 0]
        ELSE PriorityRow(p, GroupOf(evs, p))]

\* aggregate_priority_breakdown: a row for every priority with an event
aggregate_priority_breakdown(evs) ==
    LET present == {evs[i].priority : i \in 1 .. Len(evs)}
    IN  [p \in present |-> PriorityRow(p, GroupOf(evs, p))]

\* compute_system_metrics
compute_system_metrics(evs) ==
    IF evs = << >>
    THEN [total_patients |-> 0, overall_breach_rate_percent |-> 0,
          overall_avg_wait_min |-> 0, overall_p95_wait_min |-> 0]
    ELSE [total_patients |-> Len(evs),
          overall_breach_rate_percent |-> Round1(CountBreached(evs) * 100, Len(evs)),
          overall_avg_wait_min |-> Round1(SumWait(evs), Len(evs)),
          overall_p95_wait_min |-> Quantile95(evs)]

\* build_simulation_report(parameters, results, horizon_minutes)
build_simulation_report(n_completed, evs, horizon_minutes) ==
    [kind |-> "report",
     completed |-> n_completed,
     system_performance |-> compute_system_metrics(evs),
     priority_breakdown |-> aggregate_priority_breakdown(evs),
     events |-> evs,
     simulation_time_hours |-> Round1(horizon_minutes, 60)]

\* no value yet, and the empty dict {} of the module-level run_simulation
NoReport == [kind |-> "none"]
EmptyDict == [kind |-> "empty_dict"]

(***************************************************************************)
(* The horizon of the module-level run_simulation, lines 198-207.          *)
(***************************************************************************)
\* float(e.get(key, 0.0) or 0.0) of a field that is absent or None
ArrivalOrZero(e) == IF e.shape = "no_arrival" THEN 0 ELSE e.arrival_min
ServiceOrZero(e) == IF e.shape \in {"no_service", "null_service"} THEN 0 ELSE e.service_min

\* max(...) of a non-empty sequence of numbers
RECURSIVE MaxSeq(_)
MaxSeq(s) == IF Len(s) = 1 THEN Head(s) ELSE Max(Head(s), MaxSeq(Tail(s)))

ArrivalsOrZero(encs) == [i \in 1 .. Len(encs) |-> ArrivalOrZero(encs[i])]
ServicesOrZero(encs) == [i \in 1 .. Len(encs) |-> ServiceOrZero(encs[i])]

\* compute_horizon of utils/time_utils.py: last arrival + 2 x max service;
\* it raises on a key that is absent or holds no number
compute_horizon(encs) ==
    IF /\ encs[Len(encs)].shape \notin {"no_arrival", "text_arrival"}
       /\ \A i \in 1 .. Len(encs) :
             encs[i].shape \notin {"no_service", "text_service", "null_service"}
    THEN [ok |-> TRUE,
          value |-> encs[Len(encs)].arrival_min + 2 * MaxSeq(ServicesOrZero(encs))]
    ELSE [ok |-> FALSE, value |-> 0]

\* last_arrival + sum_service + max_service, or compute_horizon when a
\* field is a string that is no number
module_horizon(encs) ==
    IF \A i \in 1 .. Len(encs) : encs[i].shape \notin {"text_arrival", "text_service"}
    THEN [ok |-> TRUE,
          value |-> MaxSeq(ArrivalsOrZero(encs)) + SumSeq(ServicesOrZero(encs))
                      + MaxSeq(ServicesOrZero(encs))]
    ELSE compute_horizon(encs)

(***************************************************************************)
(* State.                                                                  *)
(***************************************************************************)
\* The record `call` follows one assign_priority call from the arrival of the
\* patient to the request for a server: pc is "calling" until _call_ollama is
\* over, "responded" when it returned a response, "returned" when
\* assign_priority is over; attempt counts the HTTP requests made, sleeps the
\* back-off sleeps, last_outcome is the outcome of the latest request, rng0 the
\* state of the random generator when the call began, raw the priority field
\* of the model's answer as the endpoint sent it.
VARIABLES
    encounters,        \* the list handed to run_simulation
    servers,           \* TriageSimulator.servers, the capacity of the facility
    horizon,           \* the horizon handed to run_simulation
    triage_system,     \* "mta" or "ollama": the policy of the simulator
    disable_fallback,  \* constructor flag of OllamaTriageAgent
    req_retries,       \* OllamaTriageAgent.req_retries
    mock_mode,         \* OllamaTriageAgent.mock_mode ("" when unset)
    endpoint,          \* the remote endpoint the agent talks to
    telemetry,         \* "off": no telemetry path; "ok"/"fail": does the append work
    entry,             \* "module": the module-level run_simulation drives the run;
                       \* "simulator": a caller drives TriageSimulator itself
    phase,             \* "constructed", "running", "done", "failed" or "empty"
    now,               \* env.now
    heap,              \* env._queue: the scheduled events
    eid,               \* env._eid: the next event id
    safe_horizon,      \* the horizon env.run is given
    put_queue,         \* facility.put_queue: pending requests, sorted by key
    users,             \* facility.users: requests holding a server
    proc,              \* the locals of each patient_process generator
    events,            \* TriageSimulator.events
    completed,         \* TriageSimulator.completed
    rng,               \* state of the module-level random generator
    last_service_min,  \* OllamaTriageAgent._last_service_min
    mock_i,            \* OllamaTriageAgent._mock_i
    telemetry_lines,   \* records appended to the telemetry file
    call,              \* the assign_priority call in progress
    seed,              \* the seed handed to the module-level run_simulation
    runs,              \* how many times the caller runs the simulation
    run_no,            \* the number of the run in progress
    first_events,      \* the event list the first run returned
    report             \* what the module-level run_simulation returned

settings == <<servers, horizon, triage_system, disable_fallback,
              req_retries, mock_mode, endpoint, telemetry, entry>>
inputs == <<encounters, settings>>
kernel == <<now, heap, eid, safe_horizon>>
facility == <<put_queue, users>>
agent == <<last_service_min, mock_i, telemetry_lines>>
session == <<seed, runs, run_no, first_events>>
vars == <<inputs, session, report, phase, kernel, facility, proc, events, completed, rng, agent, call>>

Patients == 1 .. Len(encounters)

IdleCall ==
    [pc |-> "idle", pid |-> 0, attempt |-> 0, sleeps |-> << >>, last_outcome |-> "",
     response |-> NoResponse, result |-> None, fell_back |-> FALSE, raised |-> FALSE,
     rng0 |-> 0, raw |-> Missing]

NewProc ==
    [pc |-> "created", arrival_timestamp |-> 0, priority |-> None, max_wait |-> 0,
     final_service_time |-> 0, service_start |-> 0, wait_time |-> 0]

\* TriageSimulator.__init__ and the policy's constructor
Constructed ==
    /\ phase = "constructed"
    /\ now = 0
    /\ heap = {}
    /\ eid = 0
    /\ safe_horizon = 0
    /\ put_queue = << >>
    /\ users = << >>
    /\ proc = [p \in Patients |-> NewProc]
    /\ events = << >>
    /\ completed = 0
    /\ last_service_min = None
    /\ mock_i = 0
    /\ telemetry_lines = 0
    /\ call = IdleCall
    /\ report = NoReport

\* lists of a full run with a record whose arrival time is no number
MalformedRunLists ==
    { <<WithArrival(Profile("wellness", "sprain", 10, 1), 0),
        [WithArrival(Profile("emergency", "cardiac arrest", 40, 5), 0)
            EXCEPT !.shape = "text_arrival"]>> }

\* the horizon the caller hands to TriageSimulator.run_simulation: the
\* module-level run_simulation computes it, another caller chooses it
SuppliedHorizon(e, encs) ==
    IF e = "module" THEN (IF encs = << >> THEN 0 ELSE module_horizon(encs).value)
    ELSE 700

\* a full run: up to MaxPatients encounters on up to MaxServers servers
Init ==
    /\ servers \in 1 .. MaxServers
    /\ entry \in {"module", "simulator"}
    /\ disable_fallback = TRUE
    /\ req_retries = 2
    /\ seed \in {0, 5}
    /\ rng = seed
    /\ \/ /\ triage_system = "mta"
          /\ mock_mode = ""
          /\ endpoint = "down"
          /\ encounters \in EncounterLists(RunProfiles, MaxPatients) \cup MalformedRunLists
          /\ runs = IF entry = "module" THEN 2 ELSE 1
          /\ telemetry = "off"
       \/ /\ triage_system = "ollama"
          /\ \/ mock_mode = "" /\ endpoint = "clinic" /\ telemetry = "off"
             \/ mock_mode = "cycle" /\ endpoint = "down" /\ telemetry \in {"ok", "fail"}
          /\ encounters \in EncounterLists(AgentRunProfiles, MaxPatients)
          /\ runs = 1
    /\ horizon = SuppliedHorizon(entry, encounters)
    /\ run_no = 1
    /\ first_events = << >>
    /\ Constructed

\* one encounter, every branch of the two policies, and the malformed records
InitPolicy ==
    /\ servers = 1
    /\ disable_fallback \in BOOLEAN
    /\ req_retries \in {0, 1, 3}
    /\ seed \in {0, 1, 2, 5}
    /\ rng = seed
    /\ \/ /\ triage_system = "mta"
          /\ mock_mode = ""
          /\ endpoint = "down"
          /\ req_retries = 3
          /\ disable_fallback = TRUE
          /\ telemetry = "off"
          /\ \/ /\ entry = "module"
                /\ runs \in {1, 2}
                /\ encounters \in EncounterLists(PolicyProfiles, 1)
             \/ /\ entry \in {"module", "simulator"}
                /\ runs = 1
                /\ seed = 0
                /\ encounters \in MalformedLists
       \/ /\ triage_system = "ollama"
          /\ \/ mock_mode = "" /\ endpoint \in Endpoints
             \/ mock_mode \in {"p2", "cycle"} /\ endpoint = "down"
          /\ telemetry \in {"off", "ok", "fail"}
          /\ entry = "module"
          /\ runs = 1
          /\ encounters \in EncounterLists(PolicyProfiles, 1)
    /\ horizon = SuppliedHorizon(entry, encounters)
    /\ run_no = 1
    /\ first_events = << >>
    /\ Constructed


(***************************************************************************)
(* simpy.Environment: the event heap.  Events are ordered by time, then by *)
(* scheduling priority (0 urgent, 1 normal), then by event id.             *)
(***************************************************************************)
Event(t, pri, id, kind, pid) == [t |-> t, pri |-> pri, eid |-> id, kind |-> kind, pid |-> pid]

Before(a, b) ==
    \/ a.t < b.t
    \/ a.t = b.t /\ a.pri < b.pri
    \/ a.t = b.t /\ a.pri = b.pri /\ a.eid < b.eid

\* the event env.step() pops
NextEvent == CHOOSE e \in heap : \A f \in heap \ {e} : Before(e, f)

\* an event of the given kind is the next to be processed; no event is
\* processed while a callback (a policy call) is still running
Pops(kind) ==
    /\ phase = "running"
    /\ call.pc = "idle"
    /\ heap # {}
    /\ NextEvent.kind = kind

(***************************************************************************)
(* simpy.PriorityResource: requests are kept sorted by (priority, time);   *)
(* the sort is stable, so equal keys stay in order of insertion.           *)
(***************************************************************************)
\* the key of a plain simpy.Resource queue: arrival order only
request_key_fifo(priority, time) == <<0, time>>

\* the key of a PriorityRequest without its constant preempt flag
request_key(priority, time) == <<priority, time>>

KeyLE(a, b) == a[1] < b[1] \/ (a[1] = b[1] /\ a[2] <= b[2])

\* SortedQueue.append: append, then sort by key
sorted_append(q, r) ==
    LET k == Cardinality({i \in 1 .. Len(q) : KeyLE(q[i].key, r.key)})
    IN  SubSeq(q, 1, k) \o <<r>> \o SubSeq(q, k + 1, Len(q))

\* _do_put admitting one request more than there are servers
do_put_overbook(req, u, capacity) ==
    IF Len(u) <= capacity THEN Append(u, req) ELSE u

\* _do_put of a preemptive resource: a more urgent request evicts a user
do_put_preempt(req, u, capacity) ==
    IF Len(u) < capacity THEN Append(u, req)
    ELSE IF \E i \in 1 .. Len(u) : u[i].key[1] > req.key[1]
         THEN LET v == CHOOSE i \in 1 .. Len(u) : u[i].key[1] > req.key[1]
              IN  [u EXCEPT ![v] = req]
         ELSE u

\* a _do_put that keeps one server in reserve
do_put_reserve(req, u, capacity) ==
    IF Len(u) < capacity - 1 THEN Append(u, req) ELSE u

\* Resource._do_put: the request joins the users if a server is free
do_put(req, u, capacity) ==
    IF Len(u) < capacity THEN Append(u, req) ELSE u

\* BaseResource._trigger_put: _do_put returns nothing, so the loop stops
\* after the request at the head of the queue
trigger_put(q, u, capacity) ==
    IF q = << >> THEN [q |-> q, u |-> u, granted |-> << >>]
    ELSE LET u2 == do_put(Head(q), u, capacity) IN
         IF u2 # u THEN [q |-> Tail(q), u |-> u2, granted |-> <<Head(q).pid>>]
         ELSE [q |-> q, u |-> u, granted |-> << >>]

\* Resource._do_get: users.remove(request)
RECURSIVE remove_user(_, _)
remove_user(u, pid) ==
    IF u = << >> THEN u
    ELSE IF Head(u).pid = pid THEN Tail(u)
    ELSE <<Head(u)>> \o remove_user(Tail(u), pid)

InUsers(pid) == \E i \in 1 .. Len(users) : users[i].pid = pid
InQueue(pid) == \E i \in 1 .. Len(put_queue) : put_queue[i].pid = pid

(***************************************************************************)
(* TriageSimulator.run_simulation                                          *)
(***************************************************************************)
\* max(float(e.get("arrival_min", 0.0) or 0.0) for e in encounters), 0.0 for
\* an empty list
MaxArrival(encs) ==
    IF encs = << >> THEN 0 ELSE MaxSeq(ArrivalsOrZero(encs))

\* a horizon that allows for one service per patient, not one per batch
SafeHorizon_one_batch(encs, nservers, supplied) ==
    Max(supplied, MaxArrival(encs) + ServiceCap + Slack)

\* the horizon of lines 129-134
SafeHorizon(encs, nservers, supplied) ==
    LET last_arrival == MaxArrival(encs)
        n            == Len(encs)
        batches      == CeilDiv(n, Max(nservers, 1))
        conservative == last_arrival + batches * ServiceCap + Slack
    IN  IF \E i \in 1 .. Len(encs) : encs[i].shape = "text_arrival"
        THEN supplied
        ELSE Max(supplied, conservative)

\* lines 193-196: the module-level run_simulation deletes the priority key
\* of every encounter before an agent run
without_priority(encs) == [i \in 1 .. Len(encs) |-> [encs[i] EXCEPT !.priority = None]]

\* what the caller gets when the run raises: the module-level function
\* catches the exception and returns {}, another caller sees it raised
FailureOutcome == IF entry = "module" THEN EmptyDict ELSE NoReport

\* lines 188-190: "if not encounters"
no_encounters(encs) == encs = << >>

\* the module-level run_simulation found no encounters and returns {}
ReturnEmpty ==
    /\ phase = "constructed"
    /\ entry = "module"
    /\ no_encounters(encounters)
    /\ phase' = "empty"
    /\ report' = EmptyDict
    /\ UNCHANGED <<inputs, session, kernel, facility, proc, events, completed, rng, agent, call>>

\* env.process(...) for every encounter, then env.run(until=safe_horizon);
\* the loop over the encounters raises KeyError on a record without
\* arrival_min or service_min, and the module-level function has failed
\* before it if it could not compute its horizon
RunSimulation ==
    /\ phase = "constructed"
    /\ entry \in {"module", "simulator"}
    /\ entry = "module" => ~no_encounters(encounters)
    /\ encounters' = IF entry = "module" /\ triage_system = "ollama"
                     THEN without_priority(encounters) ELSE encounters
    /\ IF \/ entry = "module" /\ ~module_horizon(encounters).ok
          \/ \E i \in 1 .. Len(encounters) :
                encounters[i].shape \in {"no_arrival", "no_service"}
       THEN /\ phase' = "failed"
            /\ report' = FailureOutcome
            /\ UNCHANGED <<safe_horizon, heap, eid>>
       ELSE /\ phase' = "running"
            /\ safe_horizon' = SafeHorizon(encounters, servers, horizon)
            /\ heap' = {Event(0, 0, p - 1, "initialize", p) : p \in Patients}
                         \cup {Event(safe_horizon', 0, Len(encounters), "until", 0)}
            /\ eid' = Len(encounters) + 1
            /\ report' = report
    /\ UNCHANGED <<settings, session, now, facility, proc, events, completed, rng, agent, call>>

\* Initialize event: the generator runs to its first yield,
\* env.timeout(arrival_time); simpy raises on a negative delay and on a delay
\* that is no number, the process fails and its failure event is scheduled
ProcessInitialize ==
    /\ Pops("initialize")
    /\ LET e == NextEvent
           p == e.pid
       IN  /\ now' = e.t
           /\ eid' = eid + 1
           /\ IF encounters[p].shape = "text_arrival" \/ encounters[p].arrival_min < 0
              THEN /\ heap' = (heap \ {e}) \cup {Event(e.t, 1, eid, "failure", p)}
                   /\ proc' = [proc EXCEPT ![p].pc = "crashed"]
              ELSE /\ heap' = (heap \ {e}) \cup
                                {Event(e.t + encounters[p].arrival_min, 1, eid, "arrival", p)}
                   /\ proc' = [proc EXCEPT ![p].pc = "arriving"]
    /\ UNCHANGED <<inputs, session, report, phase, safe_horizon, facility, events, completed, rng, agent, call>>

\* the failure event of a process nobody waits for: env.step raises its
\* exception and env.run, run_simulation and the caller see it
ProcessCrash ==
    /\ Pops("failure")
    /\ now' = NextEvent.t
    /\ heap' = heap \ {NextEvent}
    /\ phase' = "failed"
    /\ report' = FailureOutcome
    /\ UNCHANGED <<inputs, session, eid, safe_horizon, facility, proc, events, completed, rng, agent, call>>

\* arrival timeout: the process resumes and calls triage_system.assign_priority
PatientArrive ==
    /\ Pops("arrival")
    /\ LET e == NextEvent
           p == e.pid
       IN  /\ now' = e.t
           /\ heap' = heap \ {e}
           /\ proc' = [proc EXCEPT ![p].pc = "triage", ![p].arrival_timestamp = e.t]
           /\ call' = [IdleCall EXCEPT !.pc = "calling", !.pid = p, !.rng0 = rng]
    /\ UNCHANGED <<inputs, session, report, phase, eid, safe_horizon, facility, events, completed, rng, agent>>

\* ManchesterTriageSystem.assign_priority as the simulator's policy
MtsAssign ==
    /\ triage_system = "mta"
    /\ call.pc = "calling"
    /\ LET res == mts_assign_priority(encounters[call.pid], rng)
       IN  /\ call' = [call EXCEPT !.pc = "returned", !.result = res.value]
           /\ rng' = res.rng
    /\ UNCHANGED <<inputs, session, report, phase, kernel, facility, proc, events, completed, agent>>

\* TriageSystem.get_priority_info: does the level exist in the priority map
HasPriorityInfo(p) == p \in DOMAIN PRIORITIES

\* a policy without an estimate: the encounter's service_min is served
estimate_service_min_absent(enc, p) == None

\* estimate_service_min of the configured policy
estimate_service_min(enc, p) ==
    IF triage_system = "ollama" /\ last_service_min # None
    THEN last_service_min
    ELSE mts_estimate_service_min(enc, p)

\* a patient_process that keeps the priority already on the encounter
resolve_priority_preassigned(enc, assigned) ==
    IF enc.priority # None THEN enc.priority ELSE assigned

\* line 70: the priority parameter is overwritten by the policy's answer
resolve_priority(enc, assigned) == assigned

\* float(service_time) of a service_min that is None or no number raises
service_time_ok(enc) == enc.shape \notin {"text_service", "null_service"}

\* lines 73-81: get_priority_info, estimate_service_min, facility.request;
\* an exception of the policy, of get_priority_info or of float() fails the
\* process
RequestFacility ==
    /\ phase = "running"
    /\ call.pc = "returned"
    /\ LET p    == call.pid
           prio == resolve_priority(encounters[p], call.result)
           service_est == estimate_service_min(encounters[p], prio)
       IN  IF \/ call.raised
              \/ ~HasPriorityInfo(prio)
              \/ service_est = None /\ ~service_time_ok(encounters[p])
           THEN /\ proc' = [proc EXCEPT ![p].pc = "crashed"]
                /\ heap' = heap \cup {Event(now, 1, eid, "failure", p)}
                /\ eid' = eid + 1
                /\ call' = IdleCall
                /\ UNCHANGED <<now, safe_horizon, facility>>
           ELSE LET final == IF service_est # None THEN service_est
                             ELSE encounters[p].service_min
                    req == [pid |-> p, key |-> request_key(prio, now)]
                    tp  == trigger_put(sorted_append(put_queue, req), users, servers)
                IN  /\ proc' = [proc EXCEPT ![p].pc = "queued",
                                            ![p].priority = prio,
                                            ![p].max_wait = PRIORITIES[prio].max_wait_min,
                                            ![p].final_service_time = final]
                    /\ put_queue' = tp.q
                    /\ users' = tp.u
                    /\ heap' = heap \cup {Event(now, 1, eid, "request", tp.granted[i]) :
                                            i \in 1 .. Len(tp.granted)}
                    /\ eid' = eid + Len(tp.granted)
                    /\ call' = IdleCall
                    /\ UNCHANGED <<now, safe_horizon>>
    /\ UNCHANGED <<inputs, session, report, phase, events, completed, rng, agent>>

\* a wait measured from the start of the run, not from the arrival
wait_time_from_zero(service_start, arrival_timestamp) == service_start

\* line 86: wait_time = service_start - arrival_timestamp
wait_time_of(service_start, arrival_timestamp) == service_start - arrival_timestamp

\* request event: the process holds a server and starts its service timeout
StartService ==
    /\ Pops("request")
    /\ LET e == NextEvent
           p == e.pid
       IN  /\ now' = e.t
           /\ proc' = [proc EXCEPT ![p].pc = "serving",
                                   ![p].service_start = e.t,
                                   ![p].wait_time =
                                       wait_time_of(e.t, proc[p].arrival_timestamp)]
           /\ heap' = (heap \ {e}) \cup
                        {Event(e.t + proc[p].final_service_time, 1, eid, "service", p)}
           /\ eid' = eid + 1
    /\ UNCHANGED <<inputs, session, report, phase, safe_horizon, facility, events, completed, rng, agent, call>>

\* the record appended to TriageSimulator.events
CompletionEvent(p) ==
    [patient_id |-> p,
     priority |-> proc[p].priority,
     arrival_min |-> encounters[p].arrival_min,
     wait_min |-> proc[p].wait_time,
     service_min |-> proc[p].final_service_time,
     max_wait_min |-> proc[p].max_wait]

\* the event list rebuilt from the latest record only
log_event_latest(evs, rec) == <<rec>>

\* events.append(...)
log_event(evs, rec) == Append(evs, rec)

\* service timeout: log the event, count it, leave the with-block (release)
ServiceDone ==
    /\ Pops("service")
    /\ LET e == NextEvent
           p == e.pid
       IN  /\ now' = e.t
           /\ events' = log_event(events, CompletionEvent(p))
           /\ completed' = completed + 1
           /\ users' = remove_user(users, p)
           /\ heap' = (heap \ {e}) \cup {Event(e.t, 1, eid, "release", p)}
           /\ eid' = eid + 1
           /\ proc' = [proc EXCEPT ![p].pc = "done"]
    /\ UNCHANGED <<inputs, session, report, phase, safe_horizon, put_queue, rng, agent, call>>

\* release event: its callback _trigger_put serves the head of the queue
ReleaseCallback ==
    /\ Pops("release")
    /\ LET e  == NextEvent
           tp == trigger_put(put_queue, users, servers)
       IN  /\ now' = e.t
           /\ put_queue' = tp.q
           /\ users' = tp.u
           /\ heap' = (heap \ {e}) \cup {Event(e.t, 1, eid, "request", tp.granted[i]) :
                                           i \in 1 .. Len(tp.granted)}
           /\ eid' = eid + Len(tp.granted)
    /\ UNCHANGED <<inputs, session, report, phase, safe_horizon, proc, events, completed, rng, agent, call>>

\* the until event: env.run returns and run_simulation returns its result;
\* the module-level run_simulation builds its report from it, with the
\* horizon it computed itself
StopSimulation ==
    /\ Pops("until")
    /\ now' = NextEvent.t
    /\ heap' = heap \ {NextEvent}
    /\ phase' = "done"
    /\ report' = IF entry = "module"
                 THEN build_simulation_report(completed, events, horizon)
                 ELSE NoReport
    /\ UNCHANGED <<inputs, session, eid, safe_horizon, facility, proc, events, completed, rng, agent, call>>

\* a caller that passes seed=None: the generator is left where it stands
reseed_none(s, r) == r

\* random.seed(seed) of the module-level run_simulation
reseed(s, r) == s

\* the caller runs the simulation once more with the same arguments:
\* run_simulation seeds the generator and builds a new policy and a new
\* TriageSimulator; the caller keeps the events of the first run
Rerun ==
    /\ phase = "done"
    /\ entry = "module"
    /\ run_no < runs
    /\ run_no' = run_no + 1
    /\ first_events' = events
    /\ rng' = reseed(seed, rng)
    /\ phase' = "constructed"
    /\ now' = 0
    /\ heap' = {}
    /\ eid' = 0
    /\ safe_horizon' = 0
    /\ put_queue' = << >>
    /\ users' = << >>
    /\ proc' = [p \in Patients |-> NewProc]
    /\ events' = << >>
    /\ completed' = 0
    /\ last_service_min' = None
    /\ mock_i' = 0
    /\ call' = IdleCall
    /\ report' = NoReport
    /\ UNCHANGED <<inputs, seed, runs, telemetry_lines>>


(***************************************************************************)
(* OllamaTriageAgent.assign_priority                                       *)
(***************************************************************************)
\* the priority of the mock short-circuit of _call_ollama
mock_priority(mode, i) ==
    CASE mode = "p1" -> 1 [] mode = "p2" -> 2 [] mode = "p3" -> 3
      [] mode = "p4" -> 4 [] mode = "p5" -> 5
      [] OTHER -> (i % 5) + 1

\* _call_ollama in mock mode: no HTTP request, a fixed or rotating priority
CallOllamaMock ==
    /\ triage_system = "ollama"
    /\ mock_mode # ""
    /\ call.pc = "calling"
    /\ LET reply == IntV(<<CASE mock_priority(mock_mode, mock_i) = 1 -> "1"
                              [] mock_priority(mock_mode, mock_i) = 2 -> "2"
                              [] mock_priority(mock_mode, mock_i) = 3 -> "3"
                              [] mock_priority(mock_mode, mock_i) = 4 -> "4"
                              [] OTHER -> "5">>)
       IN  call' = [call EXCEPT !.pc = "responded",
                                !.last_outcome = "mock",
                                !.response = [is_dict |-> TRUE, priority |-> reply,
                                              service |-> NoService],
                                !.raw = reply]
    /\ mock_i' = IF mock_mode \in {"p1", "p2", "p3", "p4", "p5"} THEN mock_i ELSE mock_i + 1
    /\ UNCHANGED <<inputs, session, report, phase, kernel, facility, proc, events, completed, rng,
                   last_service_min, telemetry_lines>>

\* a retry loop that does not catch the parse failure
attempt_failed_nojson(o) == o.kind \in (FailureKinds \ {"malformed_json"})

\* does the except clause of the retry loop catch this outcome
attempt_failed(o) == o.kind \in FailureKinds

\* an exponential back-off without its cap
backoff_uncapped(attempt) == Pow2(attempt)

\* time.sleep(min(2 ** attempt, 4))
backoff(attempt) == Min(Pow2(attempt), BackoffCap)

\* a back-off that waits on the simulation clock
clock_after_sleep_simulated(t, seconds) == t + seconds

\* time.sleep blocks the thread; env.now is not touched
clock_after_sleep(t, seconds) == t

\* one iteration of the retry loop of _call_ollama: an HTTP request whose
\* result is returned, or whose failure is logged and slept on
HttpAttempt ==
    /\ triage_system = "ollama"
    /\ mock_mode = ""
    /\ call.pc = "calling"
    /\ call.attempt < req_retries
    /\ \E o \in Repertoire(endpoint) :
          IF attempt_failed(o)
          THEN /\ call' = [call EXCEPT !.attempt = call.attempt + 1,
                                       !.last_outcome = o.kind,
                                       !.sleeps = Append(call.sleeps, backoff(call.attempt))]
               /\ now' = clock_after_sleep(now, backoff(call.attempt))
          ELSE /\ call' = [call EXCEPT !.attempt = call.attempt + 1,
                                       !.last_outcome = o.kind,
                                       !.pc = "responded",
                                       !.response = ResponseOf(o),
                                       !.raw = o.priority]
               /\ now' = now
    /\ UNCHANGED <<inputs, session, report, phase, heap, eid, safe_horizon, facility, proc,
                   events, completed, rng, agent>>

\* line 278: the validity test of assign_priority
priority_is_valid(p) == p # None /\ 1 <= p /\ p <= 5

\* an except clause that honours disable_fallback by raising again
agent_except_handler_reraise(enc, r) ==
    LET res == mts_assign_priority(enc, r)
    IN  [raised |-> disable_fallback, value |-> res.value, rng |-> res.rng]

\* an except clause reached after a random draw (a jittered back-off)
agent_except_handler_jitter(enc, r) ==
    LET res == mts_assign_priority(enc, RandomNext(r))
    IN  [raised |-> FALSE, value |-> res.value, rng |-> res.rng]

\* the except clause of assign_priority: the rule-based policy decides
agent_except_handler(enc, r) ==
    LET res == mts_assign_priority(enc, r)
    IN  [raised |-> FALSE, value |-> res.value, rng |-> res.rng]

\* a failure path that leaves the last service estimate as it stands
reset_service_min_keep(current) == current

\* line 302: "Reset last service estimate on failure path"
reset_service_min(current) == None

\* an agent that keeps the earlier estimate when the response carries none
capture_service_min_if_present(current, extracted) ==
    IF extracted # None THEN extracted ELSE current

\* line 275: _last_service_min is overwritten with what this response holds
capture_service_min(current, extracted) == extracted

\* a _write_telemetry whose write error reaches its caller
write_telemetry_propagate(mode) ==
    [raised |-> mode = "fail", appended |-> IF mode = "ok" THEN 1 ELSE 0]

\* OllamaTriageAgent._write_telemetry: nothing without a telemetry path; a
\* record appended, or the write error logged and swallowed
write_telemetry(mode) ==
    [raised |-> FALSE, appended |-> IF mode = "ok" THEN 1 ELSE 0]

\* the rest of assign_priority once _call_ollama has returned a response or
\* has raised after its last attempt; the success-path telemetry is written
\* inside the try block, the error-path telemetry inside the except clause
AgentResolve ==
    /\ triage_system = "ollama"
    /\ \/ call.pc = "responded"
       \/ call.pc = "calling" /\ mock_mode = "" /\ call.attempt >= req_retries
    /\ LET priority == extract_priority_value(call.response)
           service  == extract_service_min_value(call.response)
           fb       == agent_except_handler(encounters[call.pid], rng)
           tel      == write_telemetry(telemetry)
       IN  IF call.pc = "responded" /\ priority_is_valid(priority) /\ ~tel.raised
           THEN /\ call' = [call EXCEPT !.pc = "returned", !.result = priority]
                /\ last_service_min' = capture_service_min(last_service_min, service)
                /\ rng' = rng
                /\ telemetry_lines' = telemetry_lines + tel.appended
           ELSE /\ call' = [call EXCEPT !.pc = "returned", !.result = fb.value,
                                        !.fell_back = TRUE,
                                        !.raised = fb.raised \/ tel.raised]
                /\ last_service_min' =
                      reset_service_min(IF call.pc = "responded"
                                        THEN capture_service_min(last_service_min, service)
                                        ELSE last_service_min)
                /\ rng' = fb.rng
                /\ telemetry_lines' = telemetry_lines + tel.appended
    /\ UNCHANGED <<inputs, session, report, phase, kernel, facility, proc, events, completed, mock_i>>

(***************************************************************************)
(* Specifications.                                                         *)
(***************************************************************************)
Next ==
    \/ ReturnEmpty
    \/ RunSimulation
    \/ ProcessInitialize
    \/ ProcessCrash
    \/ PatientArrive
    \/ MtsAssign
    \/ CallOllamaMock
    \/ HttpAttempt
    \/ AgentResolve
    \/ RequestFacility
    \/ StartService
    \/ ServiceDone
    \/ ReleaseCallback
    \/ StopSimulation
    \/ Rerun

\* full runs of the simulator
Spec == Init /\ [][Next]_vars

\* single-encounter runs over every branch of the policies
SpecPolicy == InitPolicy /\ [][Next]_vars

(***************************************************************************)
(* simulation/simulation.py: CompressedMTSSimulation.  The encounters come *)
(* with the priority and the service time load_and_prepare_encounters gave *)
(* them; main() runs the simulation to last arrival + 2 x max service.     *)
(***************************************************************************)
\* max_wait_min of the PRIORITIES table of simulation.py
compressed_max_wait(p) ==
    CASE p = 1 -> 0 [] p = 2 -> 10 [] p = 3 -> 60 [] p = 4 -> 120 [] OTHER -> 240

\* prepared encounters: a priority and a service time of 15 or 30 minutes
CompressedProfiles ==
    { [Profile("emergency", "follow up", 40, pr) EXCEPT !.service_min = sv] :
        pr \in {2, 4}, sv \in {15, 30} }

\* main(): horizon = last_arrival + 2 * max_service
main_horizon(encs) ==
    encs[Len(encs)].arrival_min + 2 * MaxSeq(ServicesOrZero(encs))

\* main() has loaded a non-empty, sorted encounter list and computed the horizon
InitCompressed ==
    /\ servers \in 1 .. MaxServers
    /\ entry = "compressed"
    /\ triage_system = "mta"
    /\ disable_fallback = TRUE
    /\ req_retries = 3
    /\ mock_mode = ""
    /\ endpoint = "down"
    /\ telemetry = "off"
    /\ seed = 0
    /\ rng = seed
    /\ runs = 1
    /\ run_no = 1
    /\ first_events = << >>
    /\ encounters \in EncounterLists(CompressedProfiles, MaxPatients) \ {<< >>}
    /\ horizon = main_horizon(encounters)
    /\ Constructed

\* CompressedMTSSimulation.run_simulation: a process for every encounter,
\* then env.run(until=horizon)
RunCompressed ==
    /\ phase = "constructed"
    /\ entry = "compressed"
    /\ phase' = "running"
    /\ safe_horizon' = horizon
    /\ heap' = {Event(0, 0, p - 1, "initialize", p) : p \in Patients}
                 \cup {Event(horizon, 0, Len(encounters), "until", 0)}
    /\ eid' = Len(encounters) + 1
    /\ UNCHANGED <<inputs, session, report, now, facility, proc, events, completed, rng, agent, call>>

\* arrival timeout of CompressedMTSSimulation.patient_process: the process
\* looks up max_wait and requests a server with the encounter's priority
CompressedArrive ==
    /\ entry = "compressed"
    /\ Pops("arrival")
    /\ LET e   == NextEvent
           p   == e.pid
           req == [pid |-> p, key |-> request_key(encounters[p].priority, e.t)]
           tp  == trigger_put(sorted_append(put_queue, req), users, servers)
       IN  /\ now' = e.t
           /\ proc' = [proc EXCEPT ![p].pc = "queued",
                                   ![p].arrival_timestamp = e.t,
                                   ![p].priority = encounters[p].priority,
                                   ![p].max_wait = compressed_max_wait(encounters[p].priority),
                                   ![p].final_service_time = encounters[p].service_min]
           /\ put_queue' = tp.q
           /\ users' = tp.u
           /\ heap' = (heap \ {e}) \cup {Event(e.t, 1, eid, "request", tp.granted[i]) :
                                           i \in 1 .. Len(tp.granted)}
           /\ eid' = eid + Len(tp.granted)
    /\ UNCHANGED <<inputs, session, report, phase, safe_horizon, events, completed, rng, agent, call>>

\* service timeout of CompressedMTSSimulation.patient_process:
\* priority_stats[priority].add_patient(...), completed += 1, release
CompressedServiceDone ==
    /\ entry = "compressed"
    /\ Pops("service")
    /\ LET e == NextEvent
           p == e.pid
       IN  /\ now' = e.t
           /\ events' = Append(events, CompletionEvent(p))
           /\ completed' = completed + 1
           /\ users' = remove_user(users, p)
           /\ heap' = (heap \ {e}) \cup {Event(e.t, 1, eid, "release", p)}
           /\ eid' = eid + 1
           /\ proc' = [proc EXCEPT ![p].pc = "done"]
    /\ UNCHANGED <<inputs, session, report, phase, safe_horizon, put_queue, rng, agent, call>>

NextCompressed ==
    \/ RunCompressed
    \/ ProcessInitialize
    \/ CompressedArrive
    \/ StartService
    \/ CompressedServiceDone
    \/ ReleaseCallback
    \/ StopSimulation

\* runs of CompressedMTSSimulation to the horizon of main()
SpecCompressed == InitCompressed /\ [][NextCompressed]_vars

\* one encounter triaged by the agent, for every endpoint, mock mode and
\* retry budget; the simulator is driven directly
InitCall ==
    /\ servers = 1
    /\ disable_fallback = TRUE
    /\ req_retries \in {0, 1, 3, 4}
    /\ seed \in {0, 5}
    /\ rng = seed
    /\ triage_system = "ollama"
    /\ \/ mock_mode = "" /\ endpoint \in Endpoints
       \/ mock_mode \in {"p2", "cycle"} /\ endpoint = "down"
    /\ telemetry \in {"off", "ok"}
    /\ entry = "simulator"
    /\ runs = 1
    /\ encounters \in EncounterLists({Profile("wellness", "sprain", 10, 1),
                                      Profile("urgentcare", "follow up", 40, None)}, 1)
    /\ horizon = SuppliedHorizon(entry, encounters)
    /\ run_no = 1
    /\ first_events = << >>
    /\ Constructed

\* the steps of a run under the agent
NextCall ==
    \/ RunSimulation
    \/ ProcessInitialize
    \/ PatientArrive
    \/ CallOllamaMock
    \/ HttpAttempt
    \/ AgentResolve
    \/ RequestFacility
    \/ StartService
    \/ ServiceDone
    \/ ReleaseCallback
    \/ StopSimulation

\* the steps of an assign_priority call of the agent; each is straight-line
\* code, and an HTTP request ends with a response or with an exception, at
\* the latest when its timeout expires
CallStep == CallOllamaMock \/ HttpAttempt \/ AgentResolve

\* runs under the agent in which a call that can take a step takes one
SpecCall == InitCall /\ [][NextCall]_vars /\ WF_vars(CallStep)

(***************************************************************************)
(* build_simulation_report applied to a results dict of any events.        *)
(***************************************************************************)
\* waits around the two targets 10 and 60
SyntheticWaits == {5, 8, 10, 15, 60, 61}

\* an event as patient_process logs it, for a patient of priority 2 or 3
SyntheticEvent(i, p, w) ==
    [patient_id |-> i, priority |-> p, arrival_min |-> 0, wait_min |-> w,
     service_min |-> 10, max_wait_min |-> PRIORITIES[p].max_wait_min]

\* event lists of at most maxn events
SyntheticEventLists(maxn) ==
    UNION { { [i \in 1 .. n |-> SyntheticEvent(i, f[i][1], f[i][2])] :
                f \in [1 .. n -> {2, 3} \X SyntheticWaits] } :
            n \in 0 .. maxn }

\* a results dict is at hand; no simulator is involved
InitReport ==
    /\ encounters = << >>
    /\ servers = 1
    /\ horizon \in {30, 45}
    /\ triage_system = "mta"
    /\ disable_fallback = TRUE
    /\ req_retries = 3
    /\ mock_mode = ""
    /\ endpoint = "down"
    /\ telemetry = "off"
    /\ entry = "module"
    /\ seed = 0
    /\ rng = 0
    /\ runs = 1
    /\ run_no = 1
    /\ first_events = << >>
    /\ phase = "results"
    /\ now = 0
    /\ heap = {}
    /\ eid = 0
    /\ safe_horizon = 0
    /\ put_queue = << >>
    /\ users = << >>
    /\ proc = << >>
    /\ events \in SyntheticEventLists(MaxPatients)
    /\ completed = Len(events)
    /\ last_service_min = None
    /\ mock_i = 0
    /\ telemetry_lines = 0
    /\ call = IdleCall
    /\ report = NoReport

\* report = build_simulation_report(parameters, results, horizon)
BuildReport ==
    /\ phase = "results"
    /\ phase' = "reported"
    /\ report' = build_simulation_report(completed, events, horizon)
    /\ UNCHANGED <<inputs, session, kernel, facility, proc, events, completed, rng, agent, call>>

NextReport == BuildReport

\* reports built from synthetic event lists
SpecReport == InitReport /\ [][NextReport]_vars


(***************************************************************************)
(* Properties.                                                             *)
(***************************************************************************)
\* patients that have requested a server and have not been granted one
Waiting == {p \in Patients : proc[p].pc = "queued" /\ ~InUsers(p)}

\* patients between the start and the end of their service
InService == {p \in Patients : proc[p].pc = "serving"}

\* g is ahead of w: more urgent, or as urgent and earlier to request
Precedes(g, w) ==
    \/ proc[g].priority < proc[w].priority
    \/ /\ proc[g].priority = proc[w].priority
       /\ \/ proc[g].arrival_timestamp < proc[w].arrival_timestamp
          \/ proc[g].arrival_timestamp = proc[w].arrival_timestamp /\ g < w

\* C1: when run_simulation returns at its computed horizon, every encounter
\* of the batch has produced a completion event.
C1_CompletionTotality ==
    phase = "done" => completed = Len(encounters)

\* C2: one server, two patients arriving at the same instant, one assigned
\* priority 1 and one priority 4, ten minutes of service each: once either of
\* them is in service, the priority-1 patient has started with no wait.
C2_UrgentFirstOnSimultaneousArrival ==
    \A a, b \in Patients :
        ( /\ servers = 1
          /\ Len(encounters) = 2
          /\ encounters[a].arrival_min = encounters[b].arrival_min
          /\ proc[a].priority = 1 /\ proc[b].priority = 4
          /\ proc[a].final_service_time = 10 /\ proc[b].final_service_time = 10
          /\ proc[b].pc \in {"serving", "done"} )
        => /\ proc[a].pc \in {"serving", "done"}
           /\ proc[a].wait_time = 0
           /\ proc[a].service_start <= proc[b].service_start

\* C3: a waiting patient that is granted a server is ahead of every other
\* patient waiting at that instant: lower numeric priority first, and among
\* equal priorities the earlier arrival, then the earlier list position.
C3_GrantFollowsPriority ==
    [][ \A g \in Waiting :
          InUsers(g)' => \A w \in Waiting \ {g} : Precedes(g, w) ]_vars

\* C3 happens: at a release, a later but more urgent arrival has been granted
\* the freed server while an earlier, less urgent patient keeps waiting
C3_Witness ==
    \E g, w \in Patients :
        /\ proc[g].pc = "queued" /\ InUsers(g)
        /\ w \in Waiting
        /\ proc[g].priority < proc[w].priority
        /\ proc[w].arrival_timestamp < proc[g].arrival_timestamp
        /\ proc[g].arrival_timestamp < now


\* the call is over and its value is about to be used by patient_process
Returned == call.pc = "returned"

\* the values ManchesterTriageSystem.assign_priority can return for an encounter
MtsValues(enc) == {mts_assign_priority(enc, r).value : r \in RngStates}

\* C4: whatever assign_priority of either policy returns is a level in 1..5,
\* for every encounter and every outcome of the remote endpoint.
C4_PriorityValid ==
    (Returned /\ ~call.raised) => call.result \in {1, 2, 3, 4, 5}

\* C4 happens: the agent has answered for a response whose priority is 6
C4_Witness ==
    /\ Returned
    /\ triage_system = "ollama"
    /\ call.response.is_dict
    /\ call.response.priority = IntV(<<"6">>)
    /\ call.result \in {1, 2, 3, 4, 5}

C7_FallbackDeterminism ==
    ( /\ Returned /\ call.fell_back
      /\ call.last_outcome \in FailureKinds \cup {""} )
    => /\ call.result = mts_assign_priority(encounters[call.pid], call.rng0).value
       /\ rng = mts_assign_priority(encounters[call.pid], call.rng0).rng

\* C7 happens: the endpoint answered 500 three times for an encounter whose
\* rule-based priority is drawn at random
C7_Witness ==
    /\ Returned /\ call.fell_back
    /\ endpoint = "http_500" /\ call.attempt = 3
    /\ encounters[call.pid].reason_description = "sprain"
    /\ rng # call.rng0

\* C8: the patients holding a server, and the patients in service, never
\* number more than the configured servers.
C8_Capacity ==
    /\ Len(users) <= servers
    /\ Cardinality(InService) <= servers

\* C8 happens: two servers are both busy and a patient is waiting
C8_Witness ==
    /\ servers = 2
    /\ Cardinality(InService) = 2
    /\ Waiting # {}

\* C9: a patient in service keeps its server until its service time has
\* elapsed, whoever arrives meanwhile, and leaves service exactly
\* final_service_time after it started; a waiting patient holds no server.
C9_NoPreemption ==
    /\ [] ( \A p \in InService :
              /\ InUsers(p)
              /\ now <= proc[p].service_start + proc[p].final_service_time )
    /\ [][ \A p \in InService :
              proc'[p].pc # "serving" =>
                  /\ proc'[p].pc = "done"
                  /\ now' = proc[p].service_start + proc[p].final_service_time ]_vars

\* C9 happens: a more urgent patient, arrived after the service started, is
\* waiting while the less urgent one is still in service
C9_Witness ==
    \E p, q \in Patients :
        /\ p \in InService /\ InUsers(p)
        /\ q \in Waiting
        /\ proc[q].priority < proc[p].priority
        /\ proc[q].arrival_timestamp > proc[p].service_start

\* C10: completed counts the events, never exceeds the encounters, an
\* encounter has at most one event and only once its service is over, and
\* the event list of a simulator only grows at its end.
C10_EventsAppendOnly ==
    /\ [] ( /\ completed = Len(events)
            /\ completed <= Len(encounters)
            /\ \A i, j \in 1 .. Len(events) :
                  events[i].patient_id = events[j].patient_id => i = j
            /\ \A i \in 1 .. Len(events) : proc[events[i].patient_id].pc = "done" )
    /\ [][ run_no' = run_no =>
              \/ events' = events
              \/ /\ Len(events') = Len(events) + 1
                 /\ SubSeq(events', 1, Len(events)) = events ]_vars

\* C10 happens: the run is over with three events logged
C10_Witness ==
    /\ phase = "done"
    /\ Len(events) = 3
    /\ completed = 3


\* the request of patient p, in the queue or among the users
RequestOf(q, u, p) ==
    LET all == q \o u
    IN  all[CHOOSE i \in 1 .. Len(all) : all[i].pid = p]

\* q is due before p: an earlier arrival, or the same arrival and an earlier
\* place in the encounter list
DueBefore(q, p) ==
    \/ encounters[q].arrival_min < encounters[p].arrival_min
    \/ encounters[q].arrival_min = encounters[p].arrival_min /\ q < p

ConservativeBound ==
    LET n == Len(encounters)
        batches == IF n % servers = 0 THEN n \div servers ELSE (n \div servers) + 1
    IN  MaxArrival(encounters) + batches * 480 + 60

\* C12: the engine runs to the larger of the supplied horizon and the
\* batch-based bound: the clock never passes it, run_simulation returns
\* exactly there, and so never before the batch-based bound.
C12_RunsToSafeHorizon ==
    phase \in {"running", "done"} =>
        /\ now <= Max(horizon, ConservativeBound)
        /\ phase = "done" =>
              (now = Max(horizon, ConservativeBound) /\ now >= ConservativeBound)

\* C12 happens: a supplied horizon of 700 was too short for two patients on
\* one server, the last arriving at minute 10, and the run ended at 1030
C12_Witness ==
    /\ phase = "done"
    /\ horizon = 700
    /\ servers = 1
    /\ Len(encounters) = 2
    /\ now = 1030


\* C13: a second run with the same seed, the same encounter list, the same
\* server count and the rule-based policy returns the event list the first
\* run returned: the same patients, priorities, waits and service times in
\* the same order.
C13_Determinism ==
    (triage_system = "mta" /\ run_no = 2 /\ phase = "done") => events = first_events

\* C13 happens: the second run is over and repeated three events, one of
\* them with a priority drawn from the random generator
C13_Witness ==
    /\ triage_system = "mta" /\ run_no = 2 /\ phase = "done"
    /\ Len(events) = 3
    /\ events = first_events
    /\ rng # seed
    /\ \E i \in 1 .. Len(events) :
          /\ encounters[events[i].patient_id].reason_description = "sprain"
          /\ events[i].priority = 5


\* the service value the response of the call in progress carries, None when
\* the call fell back or the response has no positive value
CapturedByCall ==
    IF call.fell_back THEN None ELSE extract_service_min_value(call.response)

\* C14: the service time the agent estimates after an assign_priority call
\* is the value captured from that call's response; if that call captured
\* none, or fell back, it is the rule-based table value for the returned
\* priority, whatever earlier calls on the instance captured.
C14_ServiceFromLatestCall ==
    [][ ( /\ triage_system = "ollama"
          /\ call.pc = "returned" /\ call'.pc = "idle" /\ phase' = "running" )
        => proc'[call.pid].final_service_time =
             IF CapturedByCall # None THEN CapturedByCall
             ELSE mts_estimate_service_min(encounters[call.pid], call.result) ]_vars

\* C14 happens: the first call captured 600 minutes, the second returned
\* priority 1 without a service value and the third fell back; the second
\* and third patients got the table values 108 and 24
C14_Witness ==
    /\ triage_system = "ollama" /\ mock_mode = ""
    /\ Len(encounters) = 3
    /\ proc[1].final_service_time = 600
    /\ proc[2].priority = 1 /\ proc[2].final_service_time = 108
    /\ proc[3].priority = 4 /\ proc[3].final_service_time = 24


\* the value is an integer in 1..5: an int, a float without a fractional
\* part, or a string holding such a literal
CoercesToLevel(v) ==
    LET text == StripQuotes(v.repr)
        i    == PyInt(text)
        f    == PyFloat(text)
        d    == DotAt(text)
        integral == f.ok /\ \A k \in (d + 1) .. Len(text) : d = 0 \/ text[k] = "0"
    IN  /\ v.ty \in {"int", "float", "str"}
        /\ \/ i.ok /\ i.value \in 1 .. 5
           \/ integral /\ f.value \in 1 .. 5 /\ f.positive

\* C15: the agent returns a priority of the model only for a response whose
\* priority field coerces to an integer in 1..5; a response carrying 0, 6,
\* 10, "10", "0.5", a non-integral number, null or no priority is never
\* turned into a returned model priority.
C15_OnlyValidPriorityAccepted ==
    (triage_system = "ollama" /\ Returned /\ ~call.fell_back) => CoercesToLevel(call.raw)


\* what assign_priority of the agent returns when telemetry plays no part:
\* the priority of a valid response, the rule-based priority otherwise
DecisionOfCall ==
    LET priority == extract_priority_value(call.response)
    IN  IF priority_is_valid(priority) THEN priority
        ELSE mts_assign_priority(encounters[call.pid], call.rng0).value

\* C16: the priority the agent returns does not depend on telemetry being
\* disabled, written or failing to write: a failed write is never raised to
\* the caller, and a valid model decision is returned as it is, never
\* replaced by the fallback.
C16_TelemetryNeverAffectsPriority ==
    (triage_system = "ollama" /\ Returned) =>
        /\ ~call.raised
        /\ call.result = DecisionOfCall
        /\ call.fell_back <=> ~priority_is_valid(extract_priority_value(call.response))

\* C16 happens: the telemetry append fails and the agent has returned the
\* priority 3 of the model's answer
C16_Witness ==
    /\ triage_system = "ollama" /\ Returned
    /\ telemetry = "fail"
    /\ telemetry_lines = 0
    /\ call.last_outcome = "text"
    /\ ~call.fell_back
    /\ call.result = 3


\* C17: a run that reached its horizon with patients left unserved is never
\* the basis of a report: every report is built from a run in which all
\* encounters completed.
C17_ShortHorizonSignalled ==
    report.kind = "report" => report.completed = Len(encounters)

\* a record with a key that is absent or holds no number, or with a negative
\* arrival time
Malformed(e) == e.shape # "ok" \/ e.arrival_min < 0

\* C18: a run over a list with a malformed record fails: run_simulation
\* never returns a result for it and no report is built.
C18_MalformedRecordFailsRun ==
    (\E i \in 1 .. Len(encounters) : Malformed(encounters[i])) =>
        /\ phase # "done"
        /\ report.kind # "report"

\* C19: with no encounters the module-level run_simulation returns a report
\* with zero counts, zero rates and an empty priority breakdown.
C19_EmptyInputEmptyReport ==
    (entry = "module" /\ encounters = << >> /\ phase # "constructed") =>
        /\ report.kind = "report"
        /\ report.completed = 0
        /\ report.system_performance.total_patients = 0
        /\ report.system_performance.overall_breach_rate_percent = 0
        /\ report.system_performance.overall_avg_wait_min = 0
        /\ report.system_performance.overall_p95_wait_min = 0
        /\ DOMAIN report.priority_breakdown = {}

\* the events of priority p that waited longer than their target
LateEvents(p) ==
    {i \in 1 .. Len(events) :
        events[i].priority = p /\ events[i].wait_min > events[i].max_wait_min}

\* C20: in every report the breach count of a priority group is the number
\* of its events whose wait is strictly greater than max_wait_min, and its
\* breach rate is breaches/count*100 to the nearest tenth; the waits 5, 15
\* and 8 against the target 10 give 1 breach and 33.3.
C20_BreachRate ==
    phase = "reported" =>
        /\ \A p \in DOMAIN report.priority_breakdown :
              LET row   == report.priority_breakdown[p]
                  count == Cardinality({i \in 1 .. Len(events) : events[i].priority = p})
                  late  == Cardinality(LateEvents(p))
                  err   == row.breach_rate_percent * count - 1000 * late
              IN  /\ row.patients = count
                  /\ row.breaches = late
                  /\ 2 * err <= count /\ 2 * (0 - err) <= count
        /\ ( /\ Len(events) = 3
             /\ \A i \in 1 .. 3 : events[i].priority = 2
             /\ <<events[1].wait_min, events[2].wait_min, events[3].wait_min>> = <<5, 15, 8>> )
           => ( /\ report.priority_breakdown[2].breaches = 1
                /\ report.priority_breakdown[2].breach_rate_percent = 333 )

\* C20 happens: a report was built for three priority-2 patients who waited
\* 10, 15 and 8 minutes; the wait of 10 equals the target and is no breach
C20_Witness ==
    /\ phase = "reported"
    /\ Len(events) = 3
    /\ \A i \in 1 .. 3 : events[i].priority = 2
    /\ <<events[1].wait_min, events[2].wait_min, events[3].wait_min>> = <<10, 15, 8>>
    /\ report.priority_breakdown[2].breaches = 1
    /\ report.priority_breakdown[2].breach_rate_percent = 333


\* the sum of one column of the per-priority table over the levels in S
RECURSIVE SumPatients(_, _)
SumPatients(rows, S) ==
    IF S = {} THEN 0
    ELSE LET p == CHOOSE x \in S : TRUE
         IN  rows[p].patients + SumPatients(rows, S \ {p})

RECURSIVE SumBreaches(_, _)
SumBreaches(rows, S) ==
    IF S = {} THEN 0
    ELSE LET p == CHOOSE x \in S : TRUE
         IN  rows[p].breaches + SumBreaches(rows, S \ {p})

\* C21: the priority breakdown of a report has a row for exactly the levels
\* that occur in the events; the patient counts of its rows add up to
\* total_patients, which is the number of events, and the breach counts add
\* up to the number of events that waited longer than their target.
C21_BreakdownPartitionsEvents ==
    phase = "reported" =>
        LET rows == report.priority_breakdown
            evs  == report.events
        IN  /\ DOMAIN rows = {evs[i].priority : i \in 1 .. Len(evs)}
            /\ \A p \in DOMAIN rows : rows[p].patients >= 1
            /\ SumPatients(rows, DOMAIN rows) = report.system_performance.total_patients
            /\ report.system_performance.total_patients = Len(evs)
            /\ SumBreaches(rows, DOMAIN rows) =
                  Cardinality({i \in 1 .. Len(evs) : evs[i].wait_min > evs[i].max_wait_min})

\* C21 happens: a report over two priority-2 events, one of them late, and
\* one late priority-3 event has rows for the levels 2 and 3 only
C21_Witness ==
    /\ phase = "reported"
    /\ Len(events) = 3
    /\ DOMAIN report.priority_breakdown = {2, 3}
    /\ report.priority_breakdown[2].patients = 2
    /\ report.priority_breakdown[2].breaches = 1
    /\ report.priority_breakdown[3].breaches = 1
    /\ report.system_performance.total_patients = 3


\* the levels a sequence of candidate levels holds
LevelsOf(ps) == {ps[i] : i \in 1 .. Len(ps)}

\* C22: the rule-based policy returns the priority of the first stage that
\* yields one, in the order discriminators, flowcharts, keyword rules,
\* encounter-class mapping; the first two stages draw no random number; when
\* no stage yields a priority and the class has no mapping it returns the
\* default priority, 4.
C22_RuleStagesInOrder ==
    (triage_system = "mta" /\ Returned) =>
        LET enc == encounters[call.pid]
            d   == apply_discriminator_rules(enc.reason_description)
            f   == apply_flowchart_logic(enc.reason_description, enc.age)
            k   == apply_keyword_rules(enc.reason_description, call.rng0)
        IN  /\ d # None => (call.result = d /\ rng = call.rng0)
            /\ (d = None /\ f # None) => (call.result = f /\ rng = call.rng0)
            /\ (d = None /\ f = None /\ k.value # None) =>
                  (call.result = k.value /\ rng = k.rng)
            /\ (d = None /\ f = None /\ k.value = None) =>
                  IF enc.encounter_class \in MappedClasses
                  THEN call.result \in LevelsOf(ENCOUNTER_PRIORITY_MAP[enc.encounter_class])
                  ELSE call.result = DEFAULT_PRIORITY /\ call.result = 4 /\ rng = call.rng0

\* C22 happens: "chest pain" of an adult matches a very-urgent discriminator
\* and the chest-pain flowchart, and the discriminator's priority 2 is returned
C22_Witness ==
    /\ triage_system = "mta" /\ Returned
    /\ encounters[call.pid].reason_description = "chest pain"
    /\ apply_flowchart_logic("chest pain", encounters[call.pid].age) = 3
    /\ call.result = 2


\* patient p has been granted a server and its process has not resumed yet
Granted(p) == proc[p].pc = "queued" /\ InUsers(p)

\* C23: the wait recorded in a completion event is the instant the patient
\* acquired a server minus the instant of its arrival, and is not negative:
\* the clock stands still between the grant and the start of the service,
\* the service starts at that instant, and the event carries the difference
\* to the arrival time; a patient that requests while a server is free and
\* the queue is empty is granted at its arrival instant, so its wait is 0.
C23_WaitIsStartMinusArrival ==
    /\ [] ( \A i \in 1 .. Len(events) :
               LET p == events[i].patient_id
               IN  /\ proc[p].arrival_timestamp = encounters[p].arrival_min
                   /\ events[i].wait_min =
                         proc[p].service_start - encounters[p].arrival_min
                   /\ events[i].wait_min >= 0 )
    /\ [] ( \A p \in Patients :
               Granted(p) =>
                   \E e \in heap : e.kind = "request" /\ e.pid = p /\ e.t = now )
    /\ [][ \A p \in Patients :
              (proc[p].pc = "queued" /\ proc'[p].pc = "serving") =>
                  /\ Granted(p)
                  /\ now' = now
                  /\ proc'[p].service_start = now
                  /\ proc'[p].wait_time = now - proc[p].arrival_timestamp ]_vars
    /\ [][ ( /\ call.pc = "returned" /\ call'.pc = "idle"
              /\ proc'[call.pid].pc = "queued"
              /\ Len(users) < servers /\ put_queue = << >> )
            => ( /\ \E i \in 1 .. Len(users') : users'[i].pid = call.pid
                 /\ now' = now
                 /\ now = proc[call.pid].arrival_timestamp ) ]_vars

\* C23 happens: on one server the patient arriving at minute 0 waited 0
\* minutes and the patient arriving at minute 10 waited for the server
C23_Witness ==
    /\ servers = 1
    /\ \E i, j \in 1 .. Len(events) :
          /\ events[i].arrival_min = 0 /\ events[i].wait_min = 0
          /\ events[j].arrival_min = 10 /\ events[j].wait_min > 0
          /\ events[j].wait_min =
                events[i].service_min - 10


\* C24: the policy calls of a patient run back to back at its arrival: while
\* a call is in progress it belongs to the one patient in triage, at that
\* patient's arrival instant, and no other patient's process moves; when the
\* agent has returned, the estimate it holds is the one captured from this
\* call's response, and it is that estimate, or the table value, that the
\* patient is served with, also when patients arrive at the same instant.
C24_NoEstimateLeakBetweenPatients ==
    /\ [] ( call.pc # "idle" =>
               /\ proc[call.pid].pc = "triage"
               /\ now = encounters[call.pid].arrival_min
               /\ \A q \in Patients \ {call.pid} : proc[q].pc # "triage" )
    /\ [] ( (triage_system = "ollama" /\ Returned) => last_service_min = CapturedByCall )
    /\ [][ call.pc # "idle" =>
              /\ \A q \in Patients \ {call.pid} : proc'[q] = proc[q]
              /\ call'.pc # "idle" => call'.pid = call.pid ]_vars
    /\ [][ ( /\ triage_system = "ollama"
              /\ call.pc = "returned" /\ proc'[call.pid].pc = "queued" )
            => proc'[call.pid].final_service_time =
                 IF last_service_min # None THEN last_service_min
                 ELSE mts_estimate_service_min(encounters[call.pid], call.result) ]_vars

\* C24 happens: two patients arrived at minute 0; the model answered 600
\* minutes for the first and gave no service time for the second, which was
\* served with the table value 108 of its priority 1
C24_Witness ==
    /\ triage_system = "ollama" /\ mock_mode = ""
    /\ Len(encounters) >= 2
    /\ encounters[1].arrival_min = 0 /\ encounters[2].arrival_min = 0
    /\ proc[1].pc \in {"queued", "serving"}
    /\ proc[1].final_service_time = 600
    /\ proc[2].pc = "queued"
    /\ proc[2].priority = 1
    /\ proc[2].final_service_time = 108


\* C25: a policy call does not advance simulated time: while the call runs,
\* with its retries and back-off sleeps, the clock, the scheduled events,
\* the queue, the servers, every process and the event log stay as they
\* are; when it is over the patient requests a server at the instant
\* arrival_min, and no other patient's state changes at that request except
\* that a queue may hold one request more.
C25_PolicyCallTakesNoSimulatedTime ==
    /\ [][ call.pc \in {"calling", "responded"} =>
              /\ now' = now
              /\ heap' = heap
              /\ put_queue' = put_queue /\ users' = users
              /\ proc' = proc
              /\ events' = events ]_vars
    /\ [][ (call.pc = "returned" /\ proc'[call.pid].pc = "queued") =>
              /\ now' = now
              /\ now = encounters[call.pid].arrival_min
              /\ RequestOf(put_queue', users', call.pid).key[2] = encounters[call.pid].arrival_min
              /\ \A q \in Patients \ {call.pid} : proc'[q] = proc[q]
              /\ \A e \in heap : e \in heap' ]_vars

\* C25 happens: the call for the patient arriving at minute 10 failed twice
\* and slept 1 and 2 seconds while another patient was in service; the
\* clock still shows minute 10
C25_Witness ==
    /\ Returned
    /\ call.sleeps = <<1, 2>>
    /\ encounters[call.pid].arrival_min = 10
    /\ now = 10
    /\ \E q \in Patients : proc[q].pc = "serving" /\ proc[q].service_start = 0


\* the sleep after the i-th failed attempt: 1, 2, 4, 4, ... seconds
ExpectedSleep(i) == CASE i = 1 -> 1 [] i = 2 -> 2 [] OTHER -> 4

\* C26: an assign_priority call of the agent terminates; it makes at most
\* req_retries HTTP requests and none in mock mode, makes no request once an
\* attempt has returned a response, and has slept 1, 2, 4, 4, ... seconds
\* after its failed attempts, one sleep for each of them.
C26_CallTerminatesWithinBudget ==
    /\ [] ( triage_system = "ollama" =>
               /\ call.attempt <= req_retries
               /\ mock_mode # "" => call.attempt = 0
               /\ \A i \in 1 .. Len(call.sleeps) : call.sleeps[i] = ExpectedSleep(i)
               /\ Len(call.sleeps) =
                     IF call.last_outcome \in {"text", "preparsed", "non_dict"}
                     THEN call.attempt - 1 ELSE call.attempt
               /\ (Returned /\ call.last_outcome \in FailureKinds) =>
                     call.attempt = req_retries )
    /\ [][ call.pc \in {"responded", "returned"} =>
              (call'.pc = "idle" \/ call'.attempt = call.attempt) ]_vars
    /\ (call.pc = "calling") ~> Returned

\* C26 happens: with a budget of four requests the endpoint failed four
\* times, the agent slept 1, 2, 4 and 4 seconds and the call returned
C26_Witness ==
    /\ triage_system = "ollama" /\ Returned
    /\ req_retries = 4
    /\ call.attempt = 4
    /\ call.sleeps = <<1, 2, 4, 4>>
    /\ call.fell_back


\* C27: a CompressedMTSSimulation run to last arrival + 2 x max service ends
\* with every patient completed, whatever the batch size and the number of
\* servers.
C27_ComputeHorizonCompletesAll ==
    (entry = "compressed" /\ phase = "done") =>
        /\ now = encounters[Len(encounters)].arrival_min + 2 * MaxSeq(ServicesOrZero(encounters))
        /\ completed = Len(encounters)


\* C28: simulation_time_hours of the report of the module-level
\* run_simulation is the horizon the engine ran to, the instant at which
\* env.run returned, in hours to one decimal.
C28_ReportedHoursAreRunHorizon ==
    (entry = "module" /\ phase = "done" /\ report.kind = "report") =>
        /\ now = safe_horizon
        /\ report.simulation_time_hours = Round1(safe_horizon, 60)


\* every event of the current instant has been processed: no callback is
\* running and the events still scheduled are later ones
InstantOver ==
    /\ phase = "running"
    /\ call.pc = "idle"
    /\ \A e \in heap : e.t > now

\* C29: the queue is work-conserving: once the events of an instant have
\* been processed, a patient is waiting for a server only if all servers
\* are taken and each of them is serving a patient.
C29_WorkConserving ==
    (InstantOver /\ Waiting # {}) =>
        /\ Len(users) = servers
        /\ Cardinality(InService) = servers

\* C29 happens: three patients came at minute 0 to two servers; when the
\* instant is over two are in service and the third waits
C29_Witness ==
    /\ InstantOver
    /\ now = 0
    /\ servers = 2
    /\ Cardinality(InService) = 2
    /\ Cardinality(Waiting) = 1


\* the table of the rule-based policy in tenths of a minute: the minutes of
\* the level times 12 for a child, 11 for a patient over 65, 10 otherwise
TableTenths(priority, age) ==
    <<90, 60, 40, 20, 10>>[priority] *
        (IF age < 16 THEN 12 ELSE IF age > 65 THEN 11 ELSE 10)

\* patients whose service time has been determined
Estimated == {p \in Patients : proc[p].pc \in {"queued", "serving", "done"}}

\* C30: under the rule-based policy the engine serves every patient for the
\* table value of the assigned priority, adjusted for age: the estimate is
\* never None, the encounter's own service_min is not used, the service
\* timeout and the logged event carry the table value, and it is at most
\* the 480 minutes of the horizon bound.
C30_MtsServiceIsTableValue ==
    triage_system = "mta" =>
        /\ Returned => estimate_service_min(encounters[call.pid], call.result) # None
        /\ \A p \in Estimated :
              /\ proc[p].priority \in 1 .. 5
              /\ proc[p].final_service_time # None
              /\ 10 * proc[p].final_service_time =
                    TableTenths(proc[p].priority, encounters[p].age)
              /\ proc[p].final_service_time <= ServiceCap
        /\ \A p \in InService :
              \E e \in heap :
                 /\ e.kind = "service" /\ e.pid = p
                 /\ 10 * (e.t - proc[p].service_start) =
                       TableTenths(proc[p].priority, encounters[p].age)
        /\ \A i \in 1 .. Len(events) :
              10 * events[i].service_min =
                 TableTenths(events[i].priority, encounters[events[i].patient_id].age)

\* C30 happens: a patient of 70 with chest pain and 15 minutes on the
\* encounter was assigned priority 2 and served for 66 minutes
C30_Witness ==
    /\ triage_system = "mta"
    /\ Len(events) = 1
    /\ encounters[1].age = 70
    /\ encounters[1].service_min = 15
    /\ events[1].priority = 2
    /\ events[1].service_min = 66
    /\ now = encounters[1].arrival_min + 66

=============================================================================
